---- MODULE Spec2Model ----
(***************************************************************************)
(* Model of the debug widget's capture / channel / interaction core:       *)
(*   ConsoleCapture   (src/src/capture/console-capture.ts)                  *)
(*   ErrorCapture     (src/src/capture/error-capture.ts)                    *)
(*   WebSocketClient  (src/src/api/websocket.ts, lines 1-96)                *)
(*   Widget           (src/src/api/websocket.ts, lines 1686-2660)           *)
(*   APIClient        (src/unnamed/part_001)                                *)
(*                                                                         *)
(* Abstractions: timestamps (Date.now()) are left out of LogEntry and of   *)
(* the session records; the purely presentational flags showSettings and   *)
(* showTextInput are left out (they only decide which inputs are visible). *)
(***************************************************************************)
EXTENDS Integers, Sequences, FiniteSets, TLC

\* ------------------------------------------------------------------ bounds
\* largest maxLogEntries tried by the ConsoleCapture harness
MaxM == 3
\* longest recorded call history in the ConsoleCapture harness
MaxCalls == 4

\* sockets one WebSocketClient may have alive at once in the model
MaxSockets == 2
\* longest session history the widget model builds
MaxSessions == 1
\* most HTTP requests of one kind in flight in the model
MaxInFlight == 1
\* reports the storage harness sends beyond the 50 the history keeps
MaxOver == 2
\* longest session history where sends and answer submissions overlap
MaxRace == 2
MaxMsgs == 2
\* the timer callbacks' connect() calls are counted modulo this
AttemptMod == 3
\* longest stored history the loading harness starts from
MaxLoaded == 2
\* submitAnswers calls in flight when Submit Answers is clicked repeatedly
MaxSubmits == 2

\* ------------------------------------------------------------------ values
Levels == {"log", "warn", "error"}

\* ConsoleCapture instances: 1 is the instance of the first render (the one
\* the mount effect starts), 2 is the instance of the latest re-render.
Instances == {1, 2}

\* console argument values, by what typeof / JSON.stringify / String see
StrArg(s) == [type |-> "string", val |-> s]
NumArg(s) == [type |-> "number", val |-> s]
ObjArg(json) == [type |-> "object", val |-> json]
CycArg == [type |-> "cyclic", val |-> ""]
\* a cyclic object created without a prototype: it has no toString
BareCycArg == [type |-> "bareCyclic", val |-> ""]
ErrArg(m) == [type |-> "error", val |-> m]

NoStack == "<undefined>"

\* a function reference held in console.<level>
NativeRef(l) == [kind |-> "native", level |-> l, inst |-> 0]
WrapperRef(i, l) == [kind |-> "wrapper", level |-> l, inst |-> i]
NativeConsole == [l \in Levels |-> NativeRef(l)]

VARIABLES
  console,       \* the global console: level -> function reference
  cap,           \* ConsoleCapture instances: [logs, maxEntries, originalConsole]
  life,          \* ghost: per instance "new", "started" or "stopped"
  beforeStart,   \* ghost: per instance, the console its start() replaced
  quiet,         \* ghost: instances that saw a console call since their stop()
  history,       \* ghost: per instance, the calls made while it intercepts
  wsClient,      \* WebSocketClient fields: [ws, reconnectTimeout, onQuestionsCallback]
  sockets,       \* browser sockets created by connect(): id -> readyState
  timers,        \* number of armed setTimeout(…, 5000) reconnection timers
  window,        \* ghost: close events and timer connects of the current
                 \* reconnection window, each counted up to 2
  phase,         \* Widget lifecycle: "rendered", "mounted" (effects run, UI
                 \* shown), "hidden" (effects run, render returns null),
                 \* "notRendered" (init() returned before render)
  config,        \* the DebugWidgetConfig the widget was given
  cur,           \* the capture instances the current render closes over
  ui,            \* the Widget's useState values
  errCap,        \* ErrorCapture instances: instance -> capturedError
  errListening,  \* ErrorCapture instances subscribed on window
  signals,       \* ghost: the last error or rejection event a subscribed
                 \* instance received, and how many were received (up to 2)
  sends,         \* submitDebugReport calls in flight, with their closures
  answerReqs,    \* submitAnswers calls in flight, with their closures
  stored,        \* localStorage: the item under the session history key
  invoked,       \* ghost: the calls received by callbacks other than the
                 \* Widget's, each with the callback and its arguments
  registered,    \* ghost: the callback a caller other than the Widget last
                 \* passed to onQuestions
  attempts       \* ghost: the connect() calls made by timer callbacks,
                 \* counted modulo AttemptMod

consoleVars == <<console, cap, life, beforeStart, quiet, history>>

wsVars == <<wsClient, sockets, timers, window, invoked, registered, attempts>>

widgetVars == <<phase, config, cur, ui, errCap, errListening, signals, sends, answerReqs,
               stored>>

vars == <<console, cap, life, beforeStart, quiet, history,
          wsClient, sockets, timers, window,
          phase, config, cur, ui, errCap, errListening, signals, sends, answerReqs,
          stored,
          invoked, registered, attempts>>

\* ------------------------------------------------------- ConsoleCapture
\* arg => string of captureLog's args.map callback
Stringify(arg) ==
  CASE arg.type = "string" -> arg.val
    [] arg.type = "number" -> arg.val
    [] arg.type = "object" -> arg.val
    [] arg.type = "cyclic" -> "[object Object]"
    [] arg.type = "error" -> "{}"
    [] OTHER -> arg.val

\* the args.map callback throws: JSON.stringify fails on the cycle and the
\* String(arg) of the catch fails on the missing toString
Throws(args) == \E k \in 1..Len(args) : args[k].type = "bareCyclic"

RECURSIVE JoinArgs(_)
JoinArgs(args) ==
  IF Len(args) = 0 THEN ""
  ELSE IF Len(args) = 1 THEN Stringify(args[1])
  ELSE Stringify(args[1]) \o " " \o JoinArgs(Tail(args))

\* the LogEntry captureLog builds
MakeEntry(level, args) ==
  [level |-> level,
   message |-> JoinArgs(args),
   stack |-> IF level = "error" /\ Len(args) > 0 /\ args[1].type = "error"
             THEN "stack:" \o args[1].val
             ELSE NoStack]

\* mutants of the eviction step
EvictNewest(logs, maxEntries) ==
  IF Len(logs) > maxEntries THEN SubSeq(logs, 1, Len(logs) - 1) ELSE logs

\* this.logs after the push: "if (this.logs.length > this.maxEntries) shift()"
Evict(logs, maxEntries) ==
  IF Len(logs) > maxEntries THEN Tail(logs) ELSE logs

captureLog(c, level, args) ==
  [c EXCEPT !.logs = Evict(Append(c.logs, MakeEntry(level, args)), c.maxEntries)]

\* new ConsoleCapture(maxEntries): the field initialiser reads the console
\* functions installed at construction time
NewConsoleCapture(maxEntries, con) ==
  [logs |-> <<>>, maxEntries |-> maxEntries, originalConsole |-> con]

\* getLogs(): a copy of the array
getLogs(c) == c.logs

\* calling the function held in `ref`: a wrapper records into its instance
\* and then forwards to that instance's originalConsole
RECURSIVE Invoke(_, _, _, _)
Invoke(ref, args, caps, fuel) ==
  IF ref.kind = "native" \/ fuel = 0 \/ Throws(args) THEN caps
  ELSE LET i == ref.inst
           recorded == [caps EXCEPT ![i] = captureLog(caps[i], ref.level, args)]
       IN Invoke(caps[i].originalConsole[ref.level], args, recorded, fuel - 1)

\* what the native console functions receive when the function held in
\* `ref` is called: each native call with its level, its arguments and the
\* instances whose buffer already ends with the call's entry
RECURSIVE Forwarded(_, _, _, _)
Forwarded(ref, args, caps, fuel) ==
  IF fuel = 0 THEN <<>>
  ELSE IF ref.kind = "native"
  THEN << [level |-> ref.level, args |-> args,
           recorded |-> {i \in Instances :
                          /\ Len(caps[i].logs) > 0
                          /\ ~Throws(args)
                          /\ caps[i].logs[Len(caps[i].logs)]
                               = MakeEntry(ref.level, args)}] >>
  ELSE IF Throws(args) THEN <<>>
  ELSE LET i == ref.inst
           recorded == [caps EXCEPT ![i] = captureLog(caps[i], ref.level, args)]
       IN Forwarded(caps[i].originalConsole[ref.level], args, recorded, fuel - 1)

\* console.<level>(...args) against the current global console
consoleCall(level, args, con, caps) ==
  Invoke(con[level], args, caps, Cardinality(Instances) + 1)

\* the console start() installs
StartedConsole(i) == [l \in Levels |-> WrapperRef(i, l)]

\* mutant of stop(): console.error is restored from the warn original
StoppedConsoleSlip(c) ==
  [l \in Levels |-> IF l = "error" THEN c.originalConsole["warn"]
                    ELSE c.originalConsole[l]]

\* the console stop() installs
StoppedConsole(c) == [l \in Levels |-> c.originalConsole[l]]

CCStart(i) ==
  /\ console' = StartedConsole(i)
  /\ life' = [life EXCEPT ![i] = "started"]
  /\ beforeStart' = IF life[i] = "started" THEN beforeStart
                    ELSE [beforeStart EXCEPT ![i] = console]
  /\ quiet' = quiet \ {i}
  /\ UNCHANGED <<cap, history>>
  /\ UNCHANGED <<wsVars, widgetVars>>

CCStop(i) ==
  /\ console' = StoppedConsole(cap[i])
  /\ life' = [life EXCEPT ![i] = "stopped"]
  /\ UNCHANGED <<cap, beforeStart, quiet, history>>
  /\ UNCHANGED <<wsVars, widgetVars>>

CCClear(i) ==
  /\ cap' = [cap EXCEPT ![i].logs = <<>>]
  /\ history' = [history EXCEPT ![i] = <<>>]
  /\ UNCHANGED <<console, life, beforeStart, quiet>>
  /\ UNCHANGED <<wsVars, widgetVars>>

\* the calls a host page makes in the harness
CallInputs ==
  { <<"log", <<StrArg("a")>>>>,
    <<"warn", <<StrArg("b")>>>>,
    <<"error", <<StrArg("c")>>>>,
    <<"error", <<ErrArg("boom")>>>>,
    <<"log", <<StrArg("a"), CycArg>>>> }

HostCall(in) ==
  /\ \A i \in Instances : Len(history[i]) < MaxCalls
  /\ cap' = consoleCall(in[1], in[2], console, cap)
  /\ history' = [i \in Instances |->
                   IF life[i] = "started" THEN Append(history[i], in)
                   ELSE history[i]]
  /\ quiet' = quiet \cup {i \in Instances : life[i] = "stopped"}
  /\ UNCHANGED <<console, life, beforeStart>>
  /\ UNCHANGED <<wsVars, widgetVars>>

HostConsoleCall == \E in \in CallInputs : HostCall(in)

\* ------------------------------------------------------ WebSocketClient
SocketIds == 1..MaxSockets

Sat2(n) == IF n >= 2 THEN 2 ELSE n

\* new WebSocketClient(url)
NewWebSocketClient ==
  [ws |-> 0, reconnectTimeout |-> FALSE, onQuestionsCallback |-> "none"]

NoWindow == [closes |-> 0, connects |-> 0]

\* the client together with the sockets and timers it created
Net == [client |-> wsClient, sockets |-> sockets, timers |-> timers,
        window |-> window, attempts |-> attempts]

\* mutant of scheduleReconnect: the pending-timer check is missing
scheduleReconnectUnguarded(n) ==
  [n EXCEPT !.client.reconnectTimeout = TRUE,
            !.timers = @ + 1,
            !.window = IF n.timers = 0 THEN NoWindow ELSE @]

\* scheduleReconnect(): returns at once when a timer is pending, else arms one
scheduleReconnect(n) ==
  IF n.client.reconnectTimeout THEN n
  ELSE [n EXCEPT !.client.reconnectTimeout = TRUE,
                 !.timers = @ + 1,
                 !.window = IF n.timers = 0 THEN NoWindow ELSE @]

\* socket ids not in use: a closed socket delivers no further event, and
\* connect() overwrites this.ws
FreeIds(n) == {s \in SocketIds : n.sockets[s] = "closed"}

\* mutant of connect(): the catch branch schedules no reconnection
connectGivesUp(n, ctorOk) ==
  IF ctorOk
  THEN LET s == CHOOSE x \in FreeIds(n) : \A y \in FreeIds(n) : x <= y
       IN [n EXCEPT !.client.ws = s, !.sockets[s] = "connecting"]
  ELSE n

\* connect(): new WebSocket(wsUrl) and the four handlers, or the catch branch
connect(n, ctorOk) ==
  IF ctorOk
  THEN LET s == CHOOSE x \in FreeIds(n) : \A y \in FreeIds(n) : x <= y
       IN [n EXCEPT !.client.ws = s, !.sockets[s] = "connecting"]
  ELSE scheduleReconnect(n)

\* WebSocket.close(): only a connecting or open socket starts closing
closeSocket(socks, s) ==
  IF socks[s] \in {"connecting", "open"} THEN [socks EXCEPT ![s] = "closing"]
  ELSE socks

\* mutant of disconnect(): the pending timer is not cancelled
disconnectKeepsTimer(n) ==
  IF n.client.ws # 0
  THEN [n EXCEPT !.sockets = closeSocket(@, n.client.ws), !.client.ws = 0]
  ELSE n

\* disconnect()
disconnect(n) ==
  LET cleared == IF n.client.reconnectTimeout
                 THEN [n EXCEPT !.client.reconnectTimeout = FALSE,
                                !.timers = IF @ > 0 THEN @ - 1 ELSE 0,
                                !.window = NoWindow]
                 ELSE n
  IN IF cleared.client.ws # 0
     THEN [cleared EXCEPT !.sockets = closeSocket(@, cleared.client.ws),
                          !.client.ws = 0]
     ELSE cleared

\* mutant of onQuestions(): a callback already registered is kept
onQuestionsKeepsFirst(client, callback) ==
  IF client.onQuestionsCallback = "none"
  THEN [client EXCEPT !.onQuestionsCallback = callback]
  ELSE client

\* onQuestions(callback)
onQuestions(client, callback) ==
  [client EXCEPT !.onQuestionsCallback = callback]

\* the ws.onclose handler
onclose(n) ==
  LET m == scheduleReconnect(n)
  IN [m EXCEPT !.window.closes = Sat2(@ + 1)]

\* mutant of the timer callback: the timer stays armed after it has run
timerCallbackRearms(n, ctorOk) ==
  connect([n EXCEPT !.window.connects = Sat2(@ + 1),
                    !.attempts = (@ + 1) % AttemptMod], ctorOk)

\* the setTimeout callback of scheduleReconnect
timerCallback(n, ctorOk) ==
  connect([n EXCEPT !.client.reconnectTimeout = FALSE,
                    !.timers = @ - 1,
                    !.window.connects = Sat2(@ + 1),
                    !.attempts = (@ + 1) % AttemptMod], ctorOk)

SetNet(n) ==
  /\ wsClient' = n.client
  /\ sockets' = n.sockets
  /\ timers' = n.timers
  /\ window' = n.window
  /\ attempts' = n.attempts
  /\ UNCHANGED <<invoked, registered>>

LogConnected == <<StrArg("[DebugWidget] WebSocket connected")>>
LogDisconnected == <<StrArg("[DebugWidget] WebSocket disconnected")>>
LogWsError == <<StrArg("[DebugWidget] WebSocket error:"), ObjArg("{\"isTrusted\":true}")>>
LogConnectFailed == <<StrArg("[DebugWidget] Failed to connect WebSocket:"), ErrArg("SyntaxError")>>

\* console.<level>(args) made by the widget's own code
Logged(level, args) ==
  /\ cap' = consoleCall(level, args, console, cap)
  /\ UNCHANGED <<console, life, beforeStart, quiet, history>>

WsConnect ==
  \E ctorOk \in BOOLEAN :
    /\ ctorOk => FreeIds(Net) # {}
    /\ SetNet(connect(Net, ctorOk))
    /\ IF ctorOk THEN UNCHANGED consoleVars ELSE Logged("error", LogConnectFailed)
    /\ UNCHANGED widgetVars

WsDisconnect ==
  /\ SetNet(disconnect(Net))
  /\ UNCHANGED <<consoleVars, widgetVars>>

SocketOpen ==
  \E s \in SocketIds :
    /\ sockets[s] = "connecting"
    /\ sockets' = [sockets EXCEPT ![s] = "open"]
    /\ Logged("log", LogConnected)
    /\ UNCHANGED <<wsClient, timers, window, invoked, registered, attempts,
                   widgetVars>>

\* a close event, after an error event or not
SocketClose ==
  \E s \in SocketIds, withError \in BOOLEAN :
    /\ sockets[s] \in {"connecting", "open", "closing"}
    /\ withError => sockets[s] # "closing"
    /\ SetNet(onclose([Net EXCEPT !.sockets[s] = "closed"]))
    /\ cap' = consoleCall("log", LogDisconnected, console,
                IF withError THEN consoleCall("error", LogWsError, console, cap)
                ELSE cap)
    /\ UNCHANGED <<console, life, beforeStart, quiet, history, widgetVars>>

TimerFire ==
  \E ctorOk \in BOOLEAN :
    /\ timers > 0
    /\ ctorOk => FreeIds(Net) # {}
    /\ SetNet(timerCallback(Net, ctorOk))
    /\ IF ctorOk THEN UNCHANGED consoleVars ELSE Logged("error", LogConnectFailed)
    /\ UNCHANGED widgetVars

InitWsVars ==
  /\ wsClient = NewWebSocketClient
  /\ sockets = [s \in SocketIds |-> "closed"]
  /\ timers = 0
  /\ window = NoWindow
  /\ invoked = <<>>
  /\ registered = "none"
  /\ attempts = 0

\* ------------------------------------------------------------- Widget
\* the configuration the modelled widget is rendered with
WidgetConfig == [enabled |-> TRUE, maxLogEntries |-> 1]

NoId == "<none>"
NoError == [kind |-> "none"]
NoSignals == [last |-> [type |-> "none"], count |-> 0]
NoShot == "<null>"

\* ---- the session history in localStorage
\* sessions.slice(-50)
SessionCap == 50

\* mutant of slice(-n): the first n elements are kept
SliceFirst(list, n) ==
  SubSeq(list, 1, IF Len(list) > n THEN n ELSE Len(list))

\* Array.prototype.slice(-n): the last n elements, all of them when fewer
SliceLast(list, n) ==
  SubSeq(list, IF Len(list) > n THEN Len(list) - n + 1 ELSE 1, Len(list))

\* items of localStorage: none, the JSON text of a list of records, the JSON
\* text of a value that is not a list, and text that is not JSON
NoItem == [kind |-> "absent"]
ListItem(list) == [kind |-> "list", list |-> list]
JsonItem(value) == [kind |-> "json", value |-> value]
TextItem(text) == [kind |-> "text", text |-> text]

\* a JavaScript value that is not an array
NotAList(value) == [notAList |-> value]

\* mutant of saveSessions: the whole list is written
saveSessionsWhole(sessions, old, writeOk) ==
  IF writeOk THEN ListItem(sessions) ELSE old

\* saveSessions(sessions): what localStorage holds afterwards; a setItem that
\* throws is caught and leaves the old content
saveSessions(sessions, old, writeOk) ==
  IF writeOk THEN ListItem(SliceLast(sessions, SessionCap)) ELSE old

\* loadSessions(): JSON.parse of a non-empty item, [] when there is no item,
\* when it is the empty string and when JSON.parse throws
loadSessions(item) ==
  CASE item.kind = "absent" -> <<>>
    [] item.kind = "text" -> <<>>
    [] item.kind = "list" -> item.list
    [] item.kind = "json" -> NotAList(item.value)

\* useState initial values of the first render
InitialUi ==
  [isOpen |-> FALSE, comment |-> "", screenshot |-> NoShot,
   isCapturing |-> FALSE, isSending |-> FALSE, status |-> "",
   debugMode |-> "wait", isWaitingForResponse |-> FALSE,
   sessions |-> <<>>, questions |-> <<>>, sessionId |-> NoId,
   answers |-> <<>>, currentStep |-> 0]

\* the first render with `item` in localStorage
LoadedUi(item) == [InitialUi EXCEPT !.sessions = loadSessions(item)]

InitWidgetVars ==
  /\ phase = "rendered"
  /\ config = WidgetConfig
  /\ cur = 1
  /\ ui = InitialUi
  /\ errCap = [i \in Instances |-> NoError]
  /\ errListening = {}
  /\ signals = NoSignals
  /\ sends = <<>>
  /\ answerReqs = <<>>
  /\ stored = NoItem

\* a state change re-renders the component: the function body runs again and
\* constructs a new ConsoleCapture and a new ErrorCapture (lines 1727-1728)
Rerender(caps, changed) ==
  IF changed
  THEN [caps EXCEPT ![2] = NewConsoleCapture(WidgetConfig.maxLogEntries, console)]
  ELSE caps

\* the state setters of a handler have run, and its console calls left `caps`
Commit(uiNew, caps) ==
  /\ ui' = uiNew
  /\ cur' = IF uiNew # ui THEN 2 ELSE cur
  /\ cap' = Rerender(caps, uiNew # ui)
  /\ errCap' = IF uiNew # ui THEN [errCap EXCEPT ![2] = NoError] ELSE errCap
  /\ UNCHANGED <<console, life, beforeStart, quiet, history>>

\* the mount effect (useEffect with [] deps)
Mount ==
  \E ctorOk \in BOOLEAN :
    /\ phase = "rendered"
    /\ phase' = IF config.enabled THEN "mounted" ELSE "hidden"
    /\ UNCHANGED config
    /\ console' = StartedConsole(1)
    /\ life' = [life EXCEPT ![1] = "started"]
    /\ beforeStart' = [beforeStart EXCEPT ![1] = console]
    /\ errListening' = errListening \cup {1}
    /\ UNCHANGED signals
    /\ LET n == connect(Net, ctorOk)
       IN SetNet([n EXCEPT !.client = onQuestions(@, "widget")])
    /\ cap' = IF ctorOk THEN cap
              ELSE consoleCall("error", LogConnectFailed, StartedConsole(1), cap)
    /\ UNCHANGED <<quiet, history, cur, ui, errCap, sends, answerReqs, stored>>

\* console calls of the host page while the widget runs
PageCallInputs ==
  { <<"log", <<StrArg("a")>>>>, <<"error", <<ErrArg("boom")>>>> }

PageConsoleCall ==
  \E in \in PageCallInputs :
    /\ Logged(in[1], in[2])
    /\ UNCHANGED <<wsVars, widgetVars>>

\* ErrorCapture.handleError / handleRejection
ErrorFromEvent(ev) ==
  [kind |-> "error", message |-> ev.message, stack |-> ev.stack,
   fileName |-> ev.filename, lineNumber |-> ev.lineno, columnNumber |-> ev.colno]

ErrorFromRejection(ev) ==
  [kind |-> "rejection",
   message |-> "Unhandled Promise Rejection: " \o ev.message,
   stack |-> ev.stack]

PageErrorEvents ==
  { [type |-> "error", message |-> "boom", stack |-> "stack:boom",
     filename |-> "app.js", lineno |-> 3, colno |-> 7],
    [type |-> "unhandledrejection", message |-> "nope", stack |-> "stack:nope"] }

\* mutant of the two listeners: a record already stored is kept
handleSignalKeepsFirst(prev, ev) ==
  IF prev # NoError THEN prev
  ELSE IF ev.type = "error" THEN ErrorFromEvent(ev)
  ELSE ErrorFromRejection(ev)

\* this.capturedError after handleError (error events) or handleRejection
\* (unhandledrejection events) has run on an instance holding prev
handleSignal(prev, ev) ==
  IF ev.type = "error" THEN ErrorFromEvent(ev) ELSE ErrorFromRejection(ev)

PageError ==
  \E ev \in PageErrorEvents :
    /\ errCap' = [i \in Instances |->
                    IF i \in errListening THEN handleSignal(errCap[i], ev)
                    ELSE errCap[i]]
    /\ signals' = IF errListening = {} THEN signals
                  ELSE [last |-> ev, count |-> Sat2(signals.count + 1)]
    /\ UNCHANGED <<consoleVars, wsVars, phase, config, cur, ui, errListening, stored, sends,
                   answerReqs>>

ToggleOpen ==
  /\ phase = "mounted"
  /\ Commit([ui EXCEPT !.isOpen = ~@], cap)
  /\ UNCHANGED <<wsVars, phase, config, errListening, signals, stored, sends, answerReqs>>

Comments == {"", "bug"}

SetComment ==
  \E c \in Comments :
    /\ phase = "mounted"
    /\ Commit([ui EXCEPT !.comment = c], cap)
    /\ UNCHANGED <<wsVars, phase, config, errListening, signals, stored, sends, answerReqs>>

SetDebugMode ==
  \E m \in {"wait", "backlog"} :
    /\ phase = "mounted"
    /\ Commit([ui EXCEPT !.debugMode = m], cap)
    /\ UNCHANGED <<wsVars, phase, config, errListening, signals, stored, sends, answerReqs>>

\* ---- the screenshot
\* data URLs toPng may resolve with
Shots == {"data:image/png;base64,AAAA"}

\* a click on Capture Screenshot (disabled={isCapturing}):
\* handleCaptureScreenshot up to its await
ClickCapture ==
  /\ phase = "mounted"
  /\ ui.isOpen
  /\ ~ui.isCapturing
  /\ Commit([ui EXCEPT !.isCapturing = TRUE], cap)
  /\ UNCHANGED <<wsVars, phase, config, errListening, signals, stored, sends, answerReqs>>

\* handleCaptureScreenshot after the await, on success
CaptureSucceeded(u, shot) ==
  [u EXCEPT !.screenshot = shot, !.status = "Screenshot captured",
            !.isCapturing = FALSE]

\* mutant of the catch: the screenshot taken earlier is dropped
CaptureFailedDropsShot(u) ==
  [u EXCEPT !.status = "Screenshot failed", !.isCapturing = FALSE,
            !.screenshot = NoShot]

\* handleCaptureScreenshot's catch and finally
CaptureFailed(u) ==
  [u EXCEPT !.status = "Screenshot failed", !.isCapturing = FALSE]

CaptureSucceeds ==
  \E shot \in Shots :
    /\ phase = "mounted"
    /\ ui.isCapturing
    /\ Commit(CaptureSucceeded(ui, shot), cap)
    /\ UNCHANGED <<wsVars, phase, config, errListening, signals, stored, sends, answerReqs>>

CaptureFails ==
  /\ phase = "mounted"
  /\ ui.isCapturing
  /\ Commit(CaptureFailed(ui),
            consoleCall("error", <<StrArg("Screenshot error:"),
                                   ErrArg("Error: capture failed")>>,
                        console, cap))
  /\ UNCHANGED <<wsVars, phase, config, errListening, signals, stored, sends, answerReqs>>

\* mutant: the Send button is never disabled
SendNeverDisabled(u) == FALSE

\* disabled={isSending || isWaitingForResponse}
SendDisabled(u) == u.isSending \/ u.isWaitingForResponse

\* the request body handleSend builds from the current render's closures
BuildReport(u, caps, errs, inst) ==
  [logs |-> getLogs(caps[inst]), error |-> errs[inst],
   screenshot |-> u.screenshot, comment |-> u.comment, mode |-> u.debugMode]

\* a click on the Send button: handleSend up to its await, explored while
\* the history is shorter than `limit`
ClickSendWithin(limit) ==
  /\ phase = "mounted"
  /\ ui.isOpen
  /\ IF SendDisabled(ui)
     THEN UNCHANGED vars
     ELSE /\ Len(sends) < MaxInFlight + 1
          /\ Len(ui.sessions) < limit
          /\ sends' = Append(sends,
               [report |-> BuildReport(ui, cap, errCap, cur),
                closure |-> [comment |-> ui.comment, sessions |-> ui.sessions,
                             debugMode |-> ui.debugMode],
                bufferAtStart |-> getLogs(cap[1]),
                errorAtStart |-> errCap[1]])
          /\ Commit([ui EXCEPT !.isSending = TRUE, !.status = "Sending..."], cap)
          /\ UNCHANGED <<wsVars, phase, config, errListening, signals, stored, answerReqs>>

ClickSend == ClickSendWithin(MaxSessions)

RemoveAt(seq, k) == SubSeq(seq, 1, k - 1) \o SubSeq(seq, k + 1, Len(seq))

\* response bodies' data: with a session id, without one, and no data at all
Responses ==
  { [reportId |-> "r1", sessionId |-> "s1"],
    [reportId |-> "r1", sessionId |-> NoId],
    [reportId |-> NoId, sessionId |-> NoId] }

\* mutant: every successful send waits for the peer
WaitsAlways(mode) == TRUE

\* if (debugMode === 'wait')
WaitsForPeer(mode) == mode = "wait"

\* handleSend after the await, on success
SendSucceeded(u, cl, resp) ==
  LET newSession == [comment |-> IF cl.comment = "" THEN "No comment" ELSE cl.comment,
                     status |-> "pending",
                     reportId |-> resp.reportId,
                     sessionId |-> resp.sessionId]
      common == [u EXCEPT !.sessions = Append(cl.sessions, newSession),
                          !.comment = "",
                          !.screenshot = NoShot,
                          !.isSending = FALSE]
  IN IF WaitsForPeer(cl.debugMode)
     THEN [common EXCEPT !.isWaitingForResponse = TRUE,
                         !.status = "Waiting for response..."]
     ELSE [common EXCEPT !.status = "Added to backlog"]

\* mutant of the catch branch: the comment is cleared as after a success
SendFailedClearsComment(u, why) ==
  [u EXCEPT !.status = "Error: " \o why,
            !.comment = "",
            !.isWaitingForResponse = FALSE,
            !.isSending = FALSE]

\* handleSend's catch and finally
SendFailed(u, why) ==
  [u EXCEPT !.status = "Error: " \o why,
            !.isWaitingForResponse = FALSE,
            !.isSending = FALSE]

\* the k-th request in flight resolves with resp; writeOk tells whether
\* localStorage.setItem succeeds
ReportResolvesIO(k, resp, writeOk) ==
  /\ sends' = RemoveAt(sends, k)
  /\ stored' = saveSessions(SendSucceeded(ui, sends[k].closure, resp).sessions,
                            stored, writeOk)
  /\ Commit(SendSucceeded(ui, sends[k].closure, resp), cap)
  /\ UNCHANGED <<wsVars, phase, config, errListening, signals, answerReqs>>

ReportResolves(k, resp) == ReportResolvesIO(k, resp, TRUE)

SubmitReportSucceeds ==
  \E k \in 1..Len(sends), resp \in Responses : ReportResolves(k, resp)

\* the peer numbers its reports: the n-th report of a history gets "r<n>"
NumberedResponse(n) == [reportId |-> "r" \o ToString(n), sessionId |-> NoId]

SubmitReportNumbered ==
  \E k \in 1..Len(sends), writeOk \in BOOLEAN :
    ReportResolvesIO(k, NumberedResponse(Len(sends[k].closure.sessions) + 1),
                     writeOk)

FailureReasons ==
  { "TypeError: Failed to fetch",
    "Error: Failed to submit debug report: Internal Server Error" }

\* the k-th request in flight rejects with the error `why`
ReportRejects(k, why) ==
  /\ sends' = RemoveAt(sends, k)
  /\ Commit(SendFailed(ui, why),
            consoleCall("error", <<StrArg("Send error:"), ErrArg(why)>>,
                        console, cap))
  /\ UNCHANGED <<wsVars, phase, config, errListening, signals, stored, answerReqs>>

SubmitReportFails ==
  \E k \in 1..Len(sends), why \in FailureReasons : ReportRejects(k, why)

\* ---- question batches
Q1 == [id |-> "q1", text |-> "Why?", type |-> "text", options |-> <<>>,
       required |-> TRUE]
Q2 == [id |-> "q2", text |-> "Which?", type |-> "multipleChoice",
       options |-> <<"A", "B">>, required |-> TRUE]
Q3 == [id |-> "q3", text |-> "Sure?", type |-> "boolean", options |-> <<>>,
       required |-> TRUE]

Batches ==
  { [sessionId |-> "s1", questions |-> <<Q1, Q2>>],
    [sessionId |-> "s2", questions |-> <<Q3>>] }

Payloads ==
  {[kind |-> "json", type |-> "questions", data |-> b] : b \in Batches}
    \cup {[kind |-> "json", type |-> "ping"], [kind |-> "garbage"]}

\* mutant of the onQuestions callback: the answers are left as they are
QuestionsReceivedKeepAnswers(u, sid, qs) ==
  [u EXCEPT !.sessionId = sid, !.questions = qs,
            !.currentStep = 0, !.isWaitingForResponse = FALSE,
            !.status = "Questions received"]

\* mutant of the onQuestions callback: the waiting flag is left as it is
QuestionsReceivedKeepWaiting(u, sid, qs) ==
  [u EXCEPT !.sessionId = sid, !.questions = qs, !.answers = <<>>,
            !.currentStep = 0, !.status = "Questions received"]

\* the callback the Widget registers with wsClient.onQuestions
QuestionsReceived(u, sid, qs) ==
  [u EXCEPT !.sessionId = sid, !.questions = qs, !.answers = <<>>,
            !.currentStep = 0, !.isWaitingForResponse = FALSE,
            !.status = "Questions received"]

NumText(n) == IF n = 0 THEN "0" ELSE IF n = 1 THEN "1" ELSE IF n = 2 THEN "2" ELSE "n"

\* JavaScript's undefined, the value of a property an object lacks
Undefined == "<undefined>"

\* handleMessage(message) with callback cb registered: "call" when the
\* callback is invoked, "throw" when a TypeError is raised before that (type
\* read on null, sessionId read on a missing data), "skip" otherwise
handleMessage(cb, p) ==
  IF p.kind = "null" THEN "throw"
  ELSE IF p.type # "questions" THEN "skip"
  ELSE IF cb = "none" THEN "skip"
  ELSE IF "data" \notin DOMAIN p THEN "throw"
  ELSE "call"

\* a message event on socket s: ws.onmessage (JSON.parse, handleMessage and
\* the catch around both) and the registered callback: the Widget's, which
\* reads qs.length first, or one that records its call
OnMessage(s, p) ==
  /\ sockets[s] = "open"
  /\ LET cb == wsClient.onQuestionsCallback
         outcome == IF p.kind = "garbage" THEN "throw" ELSE handleMessage(cb, p)
         inWidget == outcome = "call" /\ cb = "widget"
         widgetThrows == inWidget /\ "questions" \notin DOMAIN p.data
         sid == IF "sessionId" \in DOMAIN p.data THEN p.data.sessionId
                ELSE Undefined
     IN /\ IF outcome = "throw" \/ widgetThrows
           THEN /\ Logged("error",
                     <<StrArg("[DebugWidget] Failed to parse WebSocket message:"),
                       ErrArg(IF p.kind = "garbage" THEN "SyntaxError"
                              ELSE "TypeError")>>)
                /\ UNCHANGED widgetVars
           ELSE IF inWidget
           THEN /\ Commit(QuestionsReceived(ui, sid, p.data.questions),
                          consoleCall("log",
                            <<StrArg("Received questions from server:"),
                              NumArg(NumText(Len(p.data.questions)))>>,
                            console, cap))
                /\ UNCHANGED <<phase, config, errListening, signals, stored, sends, answerReqs>>
           ELSE UNCHANGED <<consoleVars, widgetVars>>
        /\ invoked' = IF outcome = "call" /\ ~inWidget
                      THEN Append(invoked, [cb |-> cb, args |-> p.data])
                      ELSE invoked
  /\ UNCHANGED <<wsClient, sockets, timers, window, registered, attempts>>

WsMessage == \E s \in SocketIds, p \in Payloads : OnMessage(s, p)

\* payloads without the QuestionsMessage shape: text that is not JSON, null,
\* a questions message without data, and data without one of its two fields
MalformedPayloads ==
  { [kind |-> "garbage"], [kind |-> "null"],
    [kind |-> "json", type |-> "questions"],
    [kind |-> "json", type |-> "questions", data |-> [sessionId |-> "s1"]],
    [kind |-> "json", type |-> "questions", data |-> [questions |-> <<Q3>>]] }

\* ---- the Q&A modal
ModalOpen(u) == Len(u.questions) > 0 /\ u.currentStep < Len(u.questions)

CurrentQuestion(u) == u.questions[u.currentStep + 1]

\* answers[id], with "" standing for an absent key where the UI reads it
HasAnswer(u, id) == \E k \in 1..Len(u.answers) : u.answers[k].questionId = id

AnswerOf(u, id) ==
  IF HasAnswer(u, id)
  THEN (CHOOSE e \in {u.answers[k] : k \in 1..Len(u.answers)} : e.questionId = id).answer
  ELSE ""

\* {...answers, [id]: value}: an existing key keeps its place, a new one is last
PutAnswer(answers, id, value) ==
  IF \E k \in 1..Len(answers) : answers[k].questionId = id
  THEN [k \in 1..Len(answers) |->
          IF answers[k].questionId = id THEN [questionId |-> id, answer |-> value]
          ELSE answers[k]]
  ELSE Append(answers, [questionId |-> id, answer |-> value])

TextValues == {"", "x"}

SetAnswer ==
  /\ phase = "mounted"
  /\ ModalOpen(ui)
  /\ LET q == CurrentQuestion(ui)
     IN \E v \in (IF q.type = "text" THEN TextValues
                  ELSE IF q.type = "multipleChoice"
                       THEN {q.options[k] : k \in 1..Len(q.options)}
                       ELSE {}) :
          Commit([ui EXCEPT !.answers = PutAnswer(@, q.id, v)], cap)
  /\ UNCHANGED <<wsVars, phase, config, errListening, signals, stored, sends, answerReqs>>

\* the Next button is rendered when currentStep < questions.length - 1
NextShown(u) == ModalOpen(u) /\ u.currentStep < Len(u.questions) - 1

\* onClick={() => setCurrentStep(currentStep + 1)}
ClickNext ==
  /\ phase = "mounted"
  /\ NextShown(ui)
  /\ Commit([ui EXCEPT !.currentStep = @ + 1], cap)
  /\ UNCHANGED <<wsVars, phase, config, errListening, signals, stored, sends, answerReqs>>

\* mutant: the Back button is rendered on every question
BackAlwaysShown(u) == ModalOpen(u)

\* the Back button is rendered when currentStep > 0
BackShown(u) == ModalOpen(u) /\ u.currentStep > 0

\* onClick={() => setCurrentStep(currentStep - 1)}
ClickBack ==
  /\ phase = "mounted"
  /\ BackShown(ui)
  /\ Commit([ui EXCEPT !.currentStep = @ - 1], cap)
  /\ UNCHANGED <<wsVars, phase, config, errListening, signals, stored, sends, answerReqs>>

\* the Submit Answers button replaces Next on the last question;
\* handleSubmitAnswers up to its await, explored while fewer than `limit`
\* requests are in flight
ClickSubmitAnswersWithin(limit) ==
  /\ phase = "mounted"
  /\ ModalOpen(ui)
  /\ ~NextShown(ui)
  /\ ui.sessionId \notin {NoId, Undefined}
  /\ Len(answerReqs) < limit
  /\ answerReqs' = Append(answerReqs,
       [request |-> [sessionId |-> ui.sessionId, answers |-> ui.answers],
        closure |-> [sessionId |-> ui.sessionId, sessions |-> ui.sessions]])
  /\ UNCHANGED <<consoleVars, wsVars, phase, config, cur, ui, errCap, errListening,
                 signals, stored, sends>>

ClickSubmitAnswers == ClickSubmitAnswersWithin(MaxInFlight)

\* handleSubmitAnswers after the await, on success
AnswersSubmitted(u, cl) ==
  [u EXCEPT !.sessions = [k \in 1..Len(cl.sessions) |->
                            IF cl.sessions[k].sessionId = cl.sessionId
                            THEN [cl.sessions[k] EXCEPT !.status = "answered"]
                            ELSE cl.sessions[k]],
            !.questions = <<>>,
            !.sessionId = NoId,
            !.isWaitingForResponse = FALSE,
            !.status = "Answers submitted"]

\* the k-th submitAnswers call in flight resolves
AnswersResolve(k) ==
  /\ answerReqs' = RemoveAt(answerReqs, k)
  /\ stored' = saveSessions(AnswersSubmitted(ui, answerReqs[k].closure).sessions,
                            stored, TRUE)
  /\ Commit(AnswersSubmitted(ui, answerReqs[k].closure), cap)
  /\ UNCHANGED <<wsVars, phase, config, errListening, signals, sends>>

SubmitAnswersSucceeds == \E k \in 1..Len(answerReqs) : AnswersResolve(k)

\* handleSubmitAnswers' catch
AnswersFailed(u) == [u EXCEPT !.status = "Failed to submit answers"]

\* the k-th submitAnswers call in flight rejects
AnswersReject(k) ==
  /\ answerReqs' = RemoveAt(answerReqs, k)
  /\ Commit(AnswersFailed(ui), cap)
  /\ UNCHANGED <<wsVars, phase, config, errListening, signals, stored, sends>>

SubmitAnswersFails == \E k \in 1..Len(answerReqs) : AnswersReject(k)

\* ------------------------------------------------------ the widget
\* every step a user of the Widget can take: the handlers of its buttons and
\* inputs
UserStep ==
  \/ ToggleOpen
  \/ SetComment
  \/ SetDebugMode
  \/ ClickCapture
  \/ ClickSend
  \/ SetAnswer
  \/ ClickNext
  \/ ClickBack
  \/ ClickSubmitAnswers

Init ==
  /\ console = NativeConsole
  /\ cap = [i \in Instances |-> NewConsoleCapture(WidgetConfig.maxLogEntries, NativeConsole)]
  /\ life = [i \in Instances |-> "new"]
  /\ beforeStart = [i \in Instances |-> NativeConsole]
  /\ quiet = {}
  /\ history = [i \in Instances |-> <<>>]
  /\ InitWsVars
  /\ InitWidgetVars

\* The interaction controller: sending, waiting, question arrival and answer
\* submission.  The host page's own console calls and errors (NextCapture)
\* write only cap and errCap, the comment box (NextCapture) only ui.comment,
\* the answer navigation (NextQA) only ui.answers and ui.currentStep, and the
\* close and reconnection of the channel (NextWs) only the client, its
\* sockets and timers, and cap.
Next ==
  \/ Mount
  \/ ToggleOpen
  \/ SetDebugMode
  \/ ClickSend
  \/ SubmitReportSucceeds
  \/ SubmitReportFails
  \/ SocketOpen
  \/ WsMessage
  \/ ClickSubmitAnswers
  \/ SubmitAnswersSucceeds
  \/ SubmitAnswersFails

Spec == Init /\ [][Next]_vars

\* The same controller with a second report: a send can be in flight while
\* the questions of an earlier session are answered.
ClickSendRace == ClickSendWithin(MaxRace)

NextRace ==
  \/ Mount
  \/ ToggleOpen
  \/ SetDebugMode
  \/ ClickSendRace
  \/ SubmitReportSucceeds
  \/ SubmitReportFails
  \/ SocketOpen
  \/ WsMessage
  \/ ClickNext
  \/ ClickSubmitAnswers
  \/ SubmitAnswersSucceeds
  \/ SubmitAnswersFails

SpecRace == Init /\ [][NextRace]_vars

\* The capture path: what the interceptors record and what a report carries.
NextCapture ==
  \/ Mount
  \/ PageConsoleCall
  \/ PageError
  \/ ToggleOpen
  \/ SetComment
  \/ ClickCapture
  \/ CaptureSucceeds
  \/ CaptureFails
  \/ ClickSend
  \/ SubmitReportSucceeds
  \/ SubmitReportFails

SpecCapture == Init /\ [][NextCapture]_vars

\* The question dialog: batches arriving and the user stepping through them.
NextQA ==
  \/ Mount
  \/ SocketOpen
  \/ WsMessage
  \/ SetAnswer
  \/ ClickNext
  \/ ClickBack
  \/ ClickSubmitAnswers
  \/ SubmitAnswersSucceeds
  \/ SubmitAnswersFails

SpecQA == Init /\ [][NextQA]_vars

\* The modal with an impatient user: Submit Answers can be clicked again
\* while earlier submitAnswers calls are in flight.
ClickSubmitAgain == ClickSubmitAnswersWithin(MaxSubmits)

NextResubmit ==
  \/ Mount
  \/ SocketOpen
  \/ WsMessage
  \/ SetAnswer
  \/ ClickNext
  \/ ClickSubmitAgain
  \/ SubmitAnswersSucceeds
  \/ SubmitAnswersFails

SpecResubmit == Init /\ [][NextResubmit]_vars

\* The whole controller: batches arrive while it is idle, sending a report,
\* awaiting the peer, or answering an earlier batch.
NextController ==
  \/ Mount
  \/ ToggleOpen
  \/ ClickSend
  \/ SubmitReportSucceeds
  \/ SocketOpen
  \/ WsMessage
  \/ SetAnswer
  \/ ClickNext
  \/ ClickSubmitAnswers
  \/ SubmitAnswersSucceeds

SpecController == Init /\ [][NextController]_vars

\* The session history: reports sent one after another by a widget that
\* found the history of earlier page loads in localStorage.
PastHistory(n) ==
  [k \in 1..n |-> [comment |-> "No comment", status |-> "pending",
                   reportId |-> "r" \o ToString(k), sessionId |-> NoId]]

InitStore ==
  /\ console = NativeConsole
  /\ cap = [i \in Instances |-> NewConsoleCapture(WidgetConfig.maxLogEntries, NativeConsole)]
  /\ life = [i \in Instances |-> "new"]
  /\ beforeStart = [i \in Instances |-> NativeConsole]
  /\ quiet = {}
  /\ history = [i \in Instances |-> <<>>]
  /\ InitWsVars
  /\ phase = "rendered"
  /\ config = WidgetConfig
  /\ cur = 1
  /\ errCap = [i \in Instances |-> NoError]
  /\ errListening = {}
  /\ signals = NoSignals
  /\ sends = <<>>
  /\ answerReqs = <<>>
  /\ \E n \in {0, SessionCap - 1, SessionCap} :
       stored = ListItem(PastHistory(n))
  /\ ui = LoadedUi(stored)

ClickSendStore == ClickSendWithin(SessionCap + MaxOver)

NextStore ==
  \/ Mount
  \/ ToggleOpen
  \/ SetDebugMode
  \/ ClickSendStore
  \/ SubmitReportNumbered
  \/ SubmitReportFails

SpecStore == InitStore /\ [][NextStore]_vars

\* The history at its cap with both writers: reports sent and answers
\* submitted by a widget that loaded 49 or 50 records.
InitHistory ==
  /\ console = NativeConsole
  /\ cap = [i \in Instances |-> NewConsoleCapture(WidgetConfig.maxLogEntries, NativeConsole)]
  /\ life = [i \in Instances |-> "new"]
  /\ beforeStart = [i \in Instances |-> NativeConsole]
  /\ quiet = {}
  /\ history = [i \in Instances |-> <<>>]
  /\ InitWsVars
  /\ phase = "rendered"
  /\ config = WidgetConfig
  /\ cur = 1
  /\ errCap = [i \in Instances |-> NoError]
  /\ errListening = {}
  /\ signals = NoSignals
  /\ sends = <<>>
  /\ answerReqs = <<>>
  /\ \E n \in {SessionCap - 1, SessionCap} :
       stored = ListItem(PastHistory(n))
  /\ ui = LoadedUi(stored)

ClickSendHistory == ClickSendWithin(SessionCap + MaxOver)

NextHistory ==
  \/ Mount
  \/ ToggleOpen
  \/ ClickSendHistory
  \/ SubmitReportNumbered
  \/ SocketOpen
  \/ WsMessage
  \/ ClickSubmitAnswers
  \/ SubmitAnswersSucceeds

SpecHistory == InitHistory /\ [][NextHistory]_vars

\* ------------------------------------------------------------ harness:
\* The widget loaded with enabled true or false, by init() or by rendering
\* the exported Widget component, on a page that logs and raises errors.
\* init(): with enabled false it returns before anything is rendered
AutoInit(cfg) == IF cfg.enabled THEN "rendered" ELSE "notRendered"

InitEnabled ==
  /\ console = NativeConsole
  /\ cap = [i \in Instances |->
             NewConsoleCapture(WidgetConfig.maxLogEntries, NativeConsole)]
  /\ life = [i \in Instances |-> "new"]
  /\ beforeStart = [i \in Instances |-> NativeConsole]
  /\ quiet = {}
  /\ history = [i \in Instances |-> <<>>]
  /\ InitWsVars
  /\ config \in {[WidgetConfig EXCEPT !.enabled = e] : e \in BOOLEAN}
  /\ phase \in {AutoInit(config), "rendered"}
  /\ cur = 1
  /\ ui = InitialUi
  /\ errCap = [i \in Instances |-> NoError]
  /\ errListening = {}
  /\ signals = NoSignals
  /\ sends = <<>>
  /\ answerReqs = <<>>
  /\ stored = NoItem

NextEnabled ==
  \/ Mount
  \/ PageConsoleCall
  \/ PageError
  \/ ToggleOpen
  \/ SocketOpen
  \/ SocketClose
  \/ TimerFire

SpecEnabled == InitEnabled /\ [][NextEnabled]_vars

\* ------------------------------------------------------------ harness:
\* The first render of a widget that finds any item under the session
\* history key: none, an empty or unparseable text, a JSON value that is not
\* a list, or a list written by an earlier page load.
StorageContents ==
  { NoItem, TextItem(""), TextItem("not json"), JsonItem("null"),
    JsonItem("{}") }
    \cup { ListItem(PastHistory(n)) : n \in 0..MaxLoaded }

InitLoad ==
  /\ console = NativeConsole
  /\ cap = [i \in Instances |->
             NewConsoleCapture(WidgetConfig.maxLogEntries, NativeConsole)]
  /\ life = [i \in Instances |-> "new"]
  /\ beforeStart = [i \in Instances |-> NativeConsole]
  /\ quiet = {}
  /\ history = [i \in Instances |-> <<>>]
  /\ InitWsVars
  /\ phase = "rendered"
  /\ config = WidgetConfig
  /\ cur = 1
  /\ errCap = [i \in Instances |-> NoError]
  /\ errListening = {}
  /\ signals = NoSignals
  /\ sends = <<>>
  /\ answerReqs = <<>>
  /\ stored \in StorageContents
  /\ ui = LoadedUi(stored)

NextLoad ==
  \/ Mount
  \/ PageConsoleCall
  \/ PageError
  \/ ToggleOpen

SpecLoad == InitLoad /\ [][NextLoad]_vars

\* ------------------------------------------------------------ harness:
\* one WebSocketClient driven through connect() / disconnect() and the
\* events of its sockets and timers
InitWs ==
  /\ console = NativeConsole
  /\ cap = [i \in Instances |-> NewConsoleCapture(1, NativeConsole)]
  /\ life = [i \in Instances |-> "new"]
  /\ beforeStart = [i \in Instances |-> NativeConsole]
  /\ quiet = {}
  /\ history = [i \in Instances |-> <<>>]
  /\ InitWsVars
  /\ InitWidgetVars

NextWs ==
  \/ WsConnect
  \/ WsDisconnect
  \/ SocketOpen
  \/ SocketClose
  \/ TimerFire

SpecWs == InitWs /\ [][NextWs]_vars

\* the same, with the browser running every armed timer's callback
SpecWsLive == InitWs /\ [][NextWs]_vars /\ WF_vars(TimerFire)

\* ------------------------------------------------------------ harness:
\* one WebSocketClient whose questions callback is registered, and replaced,
\* by a caller other than the Widget while messages arrive on its sockets
HarnessCallbacks == {"cbA", "cbB"}

HarnessPayloads == Payloads \cup MalformedPayloads

OnQuestions(cb) ==
  /\ wsClient' = onQuestions(wsClient, cb)
  /\ registered' = cb
  /\ UNCHANGED <<sockets, timers, window, invoked, attempts, consoleVars,
                 widgetVars>>

WsOnQuestions == \E cb \in HarnessCallbacks : OnQuestions(cb)

WsDeliver ==
  \E s \in SocketIds, p \in HarnessPayloads :
    /\ Len(invoked) < MaxMsgs
    /\ OnMessage(s, p)

NextDispatch ==
  \/ WsConnect
  \/ WsDisconnect
  \/ SocketOpen
  \/ WsOnQuestions
  \/ WsDeliver

SpecDispatch == InitWs /\ [][NextDispatch]_vars

\* ------------------------------------------------------------ harness:
\* one ConsoleCapture driven through its public API
InitConsole ==
  /\ console = NativeConsole
  /\ \E m \in 0..MaxM :
       cap = [i \in Instances |-> NewConsoleCapture(m, NativeConsole)]
  /\ life = [i \in Instances |-> "new"]
  /\ beforeStart = [i \in Instances |-> NativeConsole]
  /\ quiet = {}
  /\ history = [i \in Instances |-> <<>>]
  /\ InitWsVars
  /\ InitWidgetVars

NextConsole ==
  \/ CCStart(1)
  \/ CCStop(1)
  \/ CCClear(1)
  \/ HostConsoleCall

SpecConsole == InitConsole /\ [][NextConsole]_vars

\* ------------------------------------------------------------ harness:
\* several ConsoleCapture instances, each constructed at page load or later
\* and then started and stopped any number of times, in any interleaving
\* new ConsoleCapture(maxEntries) run now, for an instance not used before
CCNew(i) ==
  /\ life[i] = "new"
  /\ cap' = [cap EXCEPT ![i] = NewConsoleCapture(cap[i].maxEntries, console)]
  /\ UNCHANGED <<console, life, beforeStart, quiet, history>>
  /\ UNCHANGED <<wsVars, widgetVars>>

\* stop() of an instance that was started
CCStopStarted(i) ==
  /\ life[i] # "new"
  /\ CCStop(i)

HostLogCall == HostCall(<<"log", <<StrArg("a")>>>>)

NextInstances ==
  \/ \E i \in Instances : CCNew(i)
  \/ \E i \in Instances : CCStart(i)
  \/ \E i \in Instances : CCStopStarted(i)
  \/ HostLogCall

SpecInstances == InitConsole /\ [][NextInstances]_vars

\* ------------------------------------------------------------- claims
LastN(s, n) == IF Len(s) <= n THEN s ELSE SubSeq(s, Len(s) - n + 1, Len(s))

EntriesOf(h) == [k \in 1..Len(h) |-> MakeEntry(h[k][1], h[k][2])]

\* C1: with maxLogEntries = M >= 1, getLogs() is the sequence of the console
\* calls made while the interceptor is started, in call order, cut to the
\* last M entries (the oldest is evicted first).
C1_FifoEviction ==
  cap[1].maxEntries >= 1 =>
    getLogs(cap[1]) = LastN(EntriesOf(history[1]), cap[1].maxEntries)

\* C1 witness: M = 2 and log(a), warn(b), error(c) leave [warn b, error c]
C1_Witness ==
  /\ cap[1].maxEntries = 2
  /\ history[1] = << <<"log", <<StrArg("a")>>>>, <<"warn", <<StrArg("b")>>>>,
                     <<"error", <<StrArg("c")>>>> >>
  /\ getLogs(cap[1]) = << [level |-> "warn", message |-> "b", stack |-> NoStack],
                          [level |-> "error", message |-> "c", stack |-> NoStack] >>

\* C2: every report handed to submitReport carries as logs the entries held
\* by the interceptor that was started at widget start, and as error the
\* latest ErrorRecord of the error interceptor started at widget start.
C2_ReportCarriesCapture ==
  \A k \in 1..Len(sends) :
    /\ sends[k].report.logs = sends[k].bufferAtStart
    /\ sends[k].report.error = sends[k].errorAtStart

\* C3: when the buffer of the started interceptor has changed since a send
\* began, the report in flight still carries the entries the buffer held
\* when the send began.
C3_SnapshotIsolation ==
  \A k \in 1..Len(sends) :
    getLogs(cap[1]) # sends[k].bufferAtStart
      => sends[k].report.logs = sends[k].bufferAtStart

\* C4: once stop() has run, console.log, console.warn and console.error are
\* the very references that start() replaced, and no step taken while the
\* instance is stopped adds a LogEntry to its buffer.
C4_StopRestores ==
  [][ /\ life'[1] = "stopped" => console' = beforeStart'[1]
      /\ (life[1] = "stopped" /\ life'[1] = "stopped")
           => Len(cap'[1].logs) <= Len(cap[1].logs) ]_vars

\* C4 witness: started, recorded, stopped, and a console call made since
C4_Witness ==
  /\ life[1] = "stopped"
  /\ 1 \in quiet
  /\ Len(cap[1].logs) >= 1
  /\ console = NativeConsole

\* C5: at most one reconnection timer is armed in any state, and a close
\* event that finds a timer pending leaves the timers as they are.
C5_SingleTimer ==
  /\ [](timers <= 1)
  /\ [][(wsClient.reconnectTimeout /\ window'.closes > window.closes)
        => (timers' = timers /\ wsClient'.reconnectTimeout)]_vars

\* C5 witness: a second close event arrived while the timer was pending
C5_Witness ==
  /\ timers = 1
  /\ wsClient.reconnectTimeout
  /\ window.closes = 2
  /\ window.connects = 0

\* C6: two close events delivered before the timer fires lead to exactly
\* one connect() by a timer: either it is still pending or it has run.
C6_OneAttempt ==
  window.closes >= 2 => timers + window.connects = 1

\* C6 witness: two closes in one window, the timer has fired once
C6_Witness ==
  /\ window.closes = 2
  /\ window.connects = 1
  /\ timers = 0

\* C7: at most one submitReport is in flight in any state; while the
\* controller is sending or awaiting the peer no step starts a request; and
\* the session history grows only in the step that resolves the request in
\* flight (a step that resolves a submitAnswers call writes the history back
\* from its own closure and is not a send).
C7_OneSendInFlight ==
  /\ [](Len(sends) <= 1)
  /\ [][ /\ (ui.isSending \/ ui.isWaitingForResponse) => Len(sends') <= Len(sends)
         /\ (Len(ui'.sessions) > Len(ui.sessions) /\ answerReqs' = answerReqs)
              => Len(sends') = Len(sends) - 1 ]_vars

\* C7 witness: the panel is open with its Send button while a request is in
\* flight, so a send request can be made and is refused
C7_Witness ==
  /\ ui.isOpen
  /\ ui.isSending
  /\ Len(sends) = 1

\* C8: whenever a request built in backlog mode resolves successfully, with
\* any of the response shapes, the waiting flag is false afterwards, nothing
\* is being sent and the status reads "Added to backlog".
C8_BacklogNeverWaits ==
  [][ \A k \in 1..Len(sends), resp \in Responses :
        (sends[k].report.mode = "backlog" /\ ReportResolves(k, resp))
          => /\ ~ui'.isWaitingForResponse
             /\ ~ui'.isSending
             /\ ui'.status = "Added to backlog" ]_vars

\* C8 witness: a backlog report has resolved with a response that carries a
\* session id
C8_Witness ==
  /\ ui.status = "Added to backlog"
  /\ ~ui.isWaitingForResponse
  /\ ~ui.isSending
  /\ Len(ui.sessions) = 1
  /\ ui.sessions[1].sessionId = "s1"

\* C9: a questions message handled while the waiting flag is set leaves the
\* controller on question 0 of the batch, with the batch's questions and
\* session id, no answers, the waiting flag cleared and the status replaced.
C9_QuestionsPreemptWaiting ==
  [][ \A s \in SocketIds, b \in Batches :
        (/\ ui.isWaitingForResponse
         /\ OnMessage(s, [kind |-> "json", type |-> "questions", data |-> b]))
          => /\ ui'.questions = b.questions
             /\ ui'.sessionId = b.sessionId
             /\ ui'.currentStep = 0
             /\ ui'.answers = <<>>
             /\ ModalOpen(ui')
             /\ ~ui'.isWaitingForResponse
             /\ ui'.status = "Questions received" ]_vars

\* C9 witness: a report was sent in wait mode and its session is pending,
\* and the batch for that session has been received
C9_Witness ==
  /\ ui.status = "Questions received"
  /\ ~ui.isWaitingForResponse
  /\ ui.questions = <<Q1, Q2>>
  /\ ui.currentStep = 0
  /\ ui.sessionId = "s1"
  /\ Len(ui.sessions) = 1
  /\ ui.sessions[1].sessionId = "s1"
  /\ ui.debugMode = "wait"

\* C10: while the question shown is required, of type text or
\* multipleChoice, and has no answer or an empty one, no step moves the
\* index forward within the same batch.
C10_RequiredBlocksNext ==
  [][ (IF ModalOpen(ui)
       THEN /\ CurrentQuestion(ui).required
            /\ CurrentQuestion(ui).type \in {"text", "multipleChoice"}
            /\ AnswerOf(ui, CurrentQuestion(ui).id) = ""
            /\ ui'.questions = ui.questions
       ELSE FALSE)
        => ui'.currentStep <= ui.currentStep ]_vars

\* C11: the persisted history never holds more than 50 records; and when a
\* report resolves and is saved while the persisted history holds the last
\* 50 records of the history in memory, the oldest persisted record is
\* dropped, the other 49 keep their order and the new record comes last.
C11_HistoryCap ==
  /\ [](Len(stored.list) <= SessionCap)
  /\ [][ \A k \in 1..Len(sends) :
          (/\ Len(stored.list) = SessionCap
           /\ stored.list = LastN(ui.sessions, SessionCap)
           /\ sends[k].closure.sessions = ui.sessions
           /\ ReportResolvesIO(k, NumberedResponse(Len(ui.sessions) + 1), TRUE))
            => /\ Len(stored'.list) = SessionCap
               /\ SubSeq(stored'.list, 1, SessionCap - 1) = Tail(stored.list)
               /\ stored'.list[SessionCap].reportId
                    = NumberedResponse(Len(ui.sessions) + 1).reportId
               /\ stored'.list[SessionCap]
                    \notin {stored.list[j] : j \in 1..SessionCap} ]_vars

\* C12: whenever a submitReport in flight rejects, for a network failure or
\* a non-success status, the controller is neither sending nor waiting
\* afterwards, the status shows the error, and the comment, the screenshot,
\* the history in memory and the persisted history are what they were.
C12_SendFailureKeepsDraft ==
  [][ \A k \in 1..Len(sends), why \in FailureReasons :
        ReportRejects(k, why)
          => /\ ~ui'.isSending
             /\ ~ui'.isWaitingForResponse
             /\ ui'.status = "Error: " \o why
             /\ ui'.comment = ui.comment
             /\ ui'.screenshot = ui.screenshot
             /\ ui'.sessions = ui.sessions
             /\ stored' = stored ]_vars

\* C12 witness: a send of a report with a comment and a screenshot failed
C12_Witness ==
  /\ ui.status = "Error: TypeError: Failed to fetch"
  /\ ui.comment = "bug"
  /\ ui.screenshot \in Shots
  /\ ~ui.isSending
  /\ ~ui.isWaitingForResponse
  /\ ui.sessions = <<>>
  /\ stored = NoItem

\* C13: whenever a submitReport in flight resolves, the history afterwards is
\* the history before with one record added at the end, which is pending and
\* carries the response's reportId and session id; and a report sent in wait
\* mode leaves the waiting flag set.
C13_SuccessAppendsPending ==
  [][ \A k \in 1..Len(sends), resp \in Responses :
        ReportResolves(k, resp)
          => /\ Len(ui'.sessions) = Len(ui.sessions) + 1
             /\ SubSeq(ui'.sessions, 1, Len(ui.sessions)) = ui.sessions
             /\ ui'.sessions[Len(ui'.sessions)].status = "pending"
             /\ ui'.sessions[Len(ui'.sessions)].reportId = resp.reportId
             /\ ui'.sessions[Len(ui'.sessions)].sessionId = resp.sessionId
             /\ (sends[k].report.mode = "wait" => ui'.isWaitingForResponse) ]_vars

\* C14: whenever a submitAnswers call for session s resolves, the history
\* afterwards is the history before with the records of session s marked
\* answered and every other record as it was, no questions are open, the
\* session id is null and the waiting flag is clear.
C14_AnswersMarkSession ==
  [][ \A k \in 1..Len(answerReqs) :
        AnswersResolve(k)
          => /\ Len(ui'.sessions) = Len(ui.sessions)
             /\ \A j \in 1..Len(ui.sessions) :
                  ui'.sessions[j] =
                    IF ui.sessions[j].sessionId = answerReqs[k].request.sessionId
                    THEN [ui.sessions[j] EXCEPT !.status = "answered"]
                    ELSE ui.sessions[j]
             /\ ui'.questions = <<>>
             /\ ui'.sessionId = NoId
             /\ ~ui'.isWaitingForResponse ]_vars

\* C15: whenever a submitAnswers call in flight rejects, the status shows the
\* failure, the history in memory and the persisted one are what they were,
\* and the controller is idle: no question dialog is open and the waiting
\* flag is clear.
C15_AnswersFailureIdle ==
  [][ \A k \in 1..Len(answerReqs) :
        AnswersReject(k)
          => /\ ui'.status = "Failed to submit answers"
             /\ ui'.sessions = ui.sessions
             /\ stored' = stored
             /\ ~ModalOpen(ui')
             /\ ~ui'.isWaitingForResponse ]_vars

\* C16: a submitAnswers call is issued only from the review state, where the
\* index equals the number of questions (past the last question).
C16_SubmitOnlyFromReview ==
  [][ Len(answerReqs') > Len(answerReqs)
        => ui.currentStep = Len(ui.questions) ]_vars

\* C17: while a batch of n >= 1 questions is held, the index is one of
\* 0..n, whatever batches arrived and whatever Next and Back clicks were
\* made; in particular no Back takes it below 0.
C17_IndexInRange ==
  Len(ui.questions) >= 1 => ui.currentStep \in 0..Len(ui.questions)

\* C17 witness: the user went on to the second question, answered it and
\* came back to index 0, where no Back is offered
C17_Witness ==
  /\ ui.questions = <<Q1, Q2>>
  /\ ui.currentStep = 0
  /\ HasAnswer(ui, "q2")
  /\ ~BackShown(ui)

\* C18: in every state, disconnect() leaves no timer pending and no handle
\* set, puts the connecting or open socket it held into closing, and a second
\* disconnect() right after it changes nothing.
C18_DisconnectIdempotent ==
  LET once == disconnect(Net)
      twice == disconnect(once)
  IN /\ ~once.client.reconnectTimeout
     /\ once.timers = 0
     /\ once.client.ws = 0
     /\ \A s \in SocketIds :
          (wsClient.ws = s /\ sockets[s] \in {"connecting", "open"})
            => once.sockets[s] = "closing"
     /\ \A s \in SocketIds : wsClient.ws # s => once.sockets[s] = sockets[s]
     /\ twice = once

\* C18 witness: disconnect() has run on a client that held a live socket
C18_Witness ==
  /\ wsClient.ws = 0
  /\ ~wsClient.reconnectTimeout
  /\ timers = 0
  /\ \E s \in SocketIds : sockets[s] = "closing"

\* C19: a payload that is not valid JSON, or that is JSON without the
\* question-batch shape (null, a questions message without data, data without
\* its sessionId or its questions), is dropped: no callback is invoked and the
\* client's socket, the sockets and the reconnection timer stay as they are.
C19_MalformedDropped ==
  [][\A s \in SocketIds, p \in MalformedPayloads :
       OnMessage(s, p) =>
         /\ invoked' = invoked
         /\ wsClient' = wsClient
         /\ sockets' = sockets
         /\ timers' = timers]_vars

\* C20: a questions message (one that carries data) calls the callback
\* registered at that moment exactly once, with the message's sessionId and
\* questions; a message of another type calls no callback; and onQuestions
\* makes its argument the registered callback, whatever was registered before.
C20_SingleCallbackDispatch ==
  /\ [](registered # "none" => wsClient.onQuestionsCallback = registered)
  /\ [][\A s \in SocketIds, p \in HarnessPayloads :
          OnMessage(s, p) =>
            invoked' =
              IF /\ p.kind = "json"
                 /\ p.type = "questions"
                 /\ "data" \in DOMAIN p
                 /\ registered # "none"
              THEN Append(invoked, [cb |-> registered, args |-> p.data])
              ELSE invoked]_vars

\* C20 witness: the callback was replaced between two questions messages and
\* each message reached the callback registered when it arrived
C20_Witness ==
  /\ Len(invoked) = 2
  /\ invoked[1].cb = "cbA"
  /\ invoked[2].cb = "cbB"
  /\ invoked[2].args \in Batches
  /\ wsClient.onQuestionsCallback = "cbB"

\* C21: whenever the client's current socket has closed, or a connection
\* attempt has failed, and disconnect() is not called, the timer callback
\* eventually makes one more connection attempt, however many were made before.
C21_RetryWithoutLimit ==
  \A k \in 0..(AttemptMod - 1) :
    ((timers > 0 \/ (wsClient.ws # 0 /\ sockets[wsClient.ws] = "closed"))
       /\ attempts = k)
      ~> (attempts # k \/ (timers = 0 /\ wsClient.ws = 0))

\* C21 witness: the timer callbacks have made AttemptMod - 1 attempts, the
\* last one failed, and the timer is armed again
C21_Witness ==
  /\ attempts = AttemptMod - 1
  /\ timers = 1
  /\ \A s \in SocketIds : sockets[s] = "closed"
  /\ wsClient.ws # 0

\* C22: while the controller awaits the peer no send starts, the wait ends
\* only when a question batch is delivered or the user dismisses it, and in
\* every waiting state the user has a step that ends the wait.
C22_WaitUntilBatchOrDismiss ==
  /\ [](ui.isWaitingForResponse =>
         ENABLED (UserStep /\ ~ui'.isWaitingForResponse))
  /\ [][ui.isWaitingForResponse =>
          /\ Len(sends') <= Len(sends)
          /\ ~ui'.isWaitingForResponse =>
               (UserStep \/ ui'.status = "Questions received")]_vars

\* C23: while instance 1 intercepts (with room for at least one entry), every
\* console call reaches the original function of its level exactly once, with
\* the arguments of the call, after the call's entry has been put in the buffer.
C23_ForwardedOnce ==
  (life[1] = "started" /\ cap[1].maxEntries >= 1) =>
    \A in \in CallInputs \cup {<<"log", <<StrArg("a"), BareCycArg>>>>} :
      Forwarded(console[in[1]], in[2], cap, Cardinality(Instances) + 1)
        = << [level |-> in[1], args |-> in[2], recorded |-> {1}] >>

\* C24: an ErrorCapture holds one record at most: after any sequence of
\* error and unhandledrejection events received while it is subscribed,
\* getError() is the record built from the most recent event alone.
C24_LastErrorOnly ==
  \A i \in errListening :
    IF signals.count = 0 THEN errCap[i] = NoError
    ELSE IF signals.last.type = "error"
    THEN errCap[i] = [kind |-> "error", message |-> signals.last.message,
                      stack |-> signals.last.stack,
                      fileName |-> signals.last.filename,
                      lineNumber |-> signals.last.lineno,
                      columnNumber |-> signals.last.colno]
    ELSE errCap[i] = [kind |-> "rejection",
                      message |-> "Unhandled Promise Rejection: "
                                    \o signals.last.message,
                      stack |-> signals.last.stack]

\* C24 witness: a rejection arrived after an earlier signal and is the
\* record held
C24_Witness ==
  /\ signals.count = 2
  /\ signals.last.type = "unhandledrejection"
  /\ 1 \in errListening
  /\ errCap[1].kind = "rejection"

\* C25: a screenshot capture that fails shows the status "Screenshot failed",
\* ends the capturing state, and leaves the comment, the screenshot taken
\* earlier, the session history (in memory and stored) and the question
\* session as they were.
C25_CaptureFailureKeepsState ==
  [][CaptureFails =>
       /\ ui'.status = "Screenshot failed"
       /\ ~ui'.isCapturing
       /\ ui'.comment = ui.comment
       /\ ui'.screenshot = ui.screenshot
       /\ ui'.sessions = ui.sessions
       /\ stored' = stored
       /\ ui'.sessionId = ui.sessionId
       /\ ui'.questions = ui.questions
       /\ ui'.answers = ui.answers
       /\ ui'.currentStep = ui.currentStep
       /\ ui'.isSending = ui.isSending
       /\ ui'.isWaitingForResponse = ui.isWaitingForResponse]_vars

\* C25 witness: a capture failed while a comment was typed and an earlier
\* screenshot was held
C25_Witness ==
  /\ ui.status = "Screenshot failed"
  /\ ~ui.isCapturing
  /\ ui.screenshot # NoShot
  /\ ui.comment # ""

\* C26: the history the first render starts with is a list whatever the
\* item in storage: the stored list when the item is the JSON text of a list,
\* and the empty list when there is no item, when it cannot be parsed, and
\* when it parses to a value that is not a list.
C26_LoadAlwaysList ==
  ui.sessions = IF stored.kind = "list" THEN stored.list ELSE <<>>

\* C27: with maxLogEntries <= 0 the capacity is treated as at least 1: once
\* a console call was made while the interceptor is started, getLogs() ends
\* with the entry of the most recent call.
C27_CapacityClamped ==
  (cap[1].maxEntries <= 0 /\ Len(history[1]) > 0) =>
    /\ Len(getLogs(cap[1])) >= 1
    /\ getLogs(cap[1])[Len(getLogs(cap[1]))]
         = MakeEntry(history[1][Len(history[1])][1],
                     history[1][Len(history[1])][2])

\* C28: for any interleaving of start() and stop() on the instances, with
\* instances constructed before or after another one was started, once every
\* instance that was started has been stopped the console functions are the
\* native ones and a console call adds nothing to any buffer.
C28_AllStoppedPristine ==
  (\A i \in Instances : life[i] # "started") =>
    /\ console = NativeConsole
    /\ \A in \in CallInputs : consoleCall(in[1], in[2], console, cap) = cap

\* C29: a widget whose configuration has enabled = false installs no console
\* wrapper and no error listener and opens no connection, whether init()
\* loaded it or the Widget component was rendered with that configuration.
C29_DisabledLoadsNothing ==
  ~config.enabled =>
    /\ console = NativeConsole
    /\ errListening = {}
    /\ \A s \in SocketIds : sockets[s] = "closed"
    /\ timers = 0

\* C30: while the dialog shows a boolean question the user has a step that
\* records an answer for that question's id, and once the question has an
\* answer the step to the next question, or the submission on the last
\* question, is available.
C30_BooleanAnswerable ==
  (phase = "mounted" /\ ModalOpen(ui) /\ CurrentQuestion(ui).type = "boolean")
    => /\ ENABLED (SetAnswer /\ HasAnswer(ui', CurrentQuestion(ui).id))
       /\ HasAnswer(ui, CurrentQuestion(ui).id)
            => ENABLED (ClickNext \/ ClickSubmitAnswers)

\* C31: while the client is disconnected (no socket handle, no timer), every
\* step other than a call of connect() leaves it so: no reconnection timer is
\* armed and no socket is created, also when the socket that disconnect()
\* closed delivers its close event.
C31_DisconnectIsFinal ==
  [][(wsClient.ws = 0 /\ timers = 0) =>
       \/ WsConnect
       \/ /\ timers' = 0
          /\ ~wsClient'.reconnectTimeout
          /\ \A s \in SocketIds :
               sockets'[s] = "connecting" => sockets[s] = "connecting"]_vars

\* C32: for any sequence of connect(), disconnect(), close events and timer
\* callbacks on one client, at most one of the sockets it created is
\* connecting or open at any moment.
C32_OneLiveSocket ==
  Cardinality({s \in SocketIds : sockets[s] \in {"connecting", "open"}}) <= 1

\* C33: the status of a session record is monotonic: a record that is
\* answered, in the history in memory or in the persisted one, is never
\* pending again in a later state, whatever the order in which a submitReport
\* and a submitAnswers in flight resolve.
C33_StatusMonotonic ==
  [][ /\ \A k \in 1..Len(ui.sessions) :
           (ui.sessions[k].status = "answered" /\ k <= Len(ui'.sessions))
             => ui'.sessions[k].status = "answered"
      /\ (stored.kind = "list" /\ stored'.kind = "list")
           => \A k \in 1..Len(stored.list) :
                (stored.list[k].status = "answered" /\ k <= Len(stored'.list))
                  => stored'.list[k].status = "answered" ]_vars

\* C34: a record of the history in memory is there in every later state: no
\* step, and so no submitAnswers that resolves after a send, makes the
\* history shorter or replaces the report a record stands for.
C34_RecordsStay ==
  [][ /\ Len(ui'.sessions) >= Len(ui.sessions)
      /\ \A k \in 1..Len(ui.sessions) :
           /\ ui'.sessions[k].reportId = ui.sessions[k].reportId
           /\ ui'.sessions[k].sessionId = ui.sessions[k].sessionId
           /\ ui'.sessions[k].comment = ui.sessions[k].comment ]_vars

\* C35: whenever a save succeeds, after a report resolved or after answers
\* were submitted, the persisted history is the last min(50, n) records of
\* the n records in memory, in the same order; and the history in memory is
\* the whole list the handler built, one record for each record it started
\* from, also when that is more than 50.
C35_SavedIsTail ==
  [][ /\ \A k \in 1..Len(sends) :
           ReportResolvesIO(k, NumberedResponse(Len(sends[k].closure.sessions) + 1),
                            TRUE)
             => /\ stored'.list = LastN(ui'.sessions, SessionCap)
                /\ Len(ui'.sessions) = Len(sends[k].closure.sessions) + 1
                /\ \A j \in 1..Len(sends[k].closure.sessions) :
                     ui'.sessions[j].reportId
                       = sends[k].closure.sessions[j].reportId
      /\ \A k \in 1..Len(answerReqs) :
           AnswersResolve(k)
             => /\ stored'.list = LastN(ui'.sessions, SessionCap)
                /\ Len(ui'.sessions) = Len(answerReqs[k].closure.sessions)
                /\ \A j \in 1..Len(answerReqs[k].closure.sessions) :
                     ui'.sessions[j].reportId
                       = answerReqs[k].closure.sessions[j].reportId ]_vars

\* C35 witness: answers were submitted and saved with 52 records in memory:
\* all 52 are in memory and the persisted list is records 3 to 52
C35_Witness ==
  /\ ui.status = "Answers submitted"
  /\ Len(ui.sessions) = SessionCap + 2
  /\ ui.sessions[1].reportId = "r1"
  /\ Len(stored.list) = SessionCap
  /\ stored.list = LastN(ui.sessions, SessionCap)
  /\ stored.list[1].reportId = "r3"

\* C36: at most one submitAnswers request is in flight for a question
\* session at any time: no two requests in flight carry the same session id.
C36_OneSubmitInFlight ==
  \A i, j \in 1..Len(answerReqs) :
    answerReqs[i].request.sessionId = answerReqs[j].request.sessionId => i = j

\* C37: the controller is never awaiting the peer and answering at once: in
\* no reachable state is the waiting flag set while a non-empty question
\* batch is open.
C37_NotWaitingWhileAnswering ==
  ~(ui.isWaitingForResponse /\ Len(ui.questions) > 0)

\* C38: a question batch delivered to the widget's callback in any
\* controller state starts a fresh question session: afterwards session id
\* and questions are the batch's, no answer is recorded, the first question
\* is shown and the waiting flag is clear; and every submitAnswers issued
\* carries only answers to questions of the batch of its session id.
C38_BatchStartsFresh ==
  /\ [][ \A s \in SocketIds, b \in Batches :
           (/\ wsClient.onQuestionsCallback = "widget"
            /\ OnMessage(s, [kind |-> "json", type |-> "questions", data |-> b]))
             => /\ ui'.sessionId = b.sessionId
                /\ ui'.questions = b.questions
                /\ ui'.answers = <<>>
                /\ ui'.currentStep = 0
                /\ ~ui'.isWaitingForResponse ]_vars
  /\ [](\A k \in 1..Len(answerReqs) :
          \A a \in 1..Len(answerReqs[k].request.answers) :
            \E b \in Batches :
              /\ b.sessionId = answerReqs[k].request.sessionId
              /\ \E q \in 1..Len(b.questions) :
                   b.questions[q].id = answerReqs[k].request.answers[a].questionId)

\* C38 witness: the answers of session s1 are on their way to the peer and
\* the batch of session s2 has replaced it: nothing is answered yet
C38_Witness ==
  /\ Len(answerReqs) = 1
  /\ answerReqs[1].request.sessionId = "s1"
  /\ Len(answerReqs[1].request.answers) = 2
  /\ ui.sessionId = "s2"
  /\ ui.questions = <<Q3>>
  /\ ui.answers = <<>>
  /\ ui.currentStep = 0
  /\ ~ui.isWaitingForResponse

\* C39: submitAnswers is never issued while a question of the session that
\* is required and of kind text or multipleChoice has an empty or unset
\* answer.
C39_RequiredAnsweredAtSubmit ==
  [][ Len(answerReqs') > Len(answerReqs)
        => \A k \in 1..Len(ui.questions) :
             (ui.questions[k].required
                /\ ui.questions[k].type \in {"text", "multipleChoice"})
               => AnswerOf(ui, ui.questions[k].id) # "" ]_vars

\* C11 witness: 50 records were persisted and a 51st report was saved:
\* r1 is gone, r2 is first and r51 is last
C11_Witness ==
  /\ Len(ui.sessions) = SessionCap + 1
  /\ Len(stored.list) = SessionCap
  /\ stored.list[1].reportId = "r2"
  /\ stored.list[SessionCap].reportId = "r51"

====
